---- MODULE Spec2Model ----
(***************************************************************************)
(* A model of docmd (src/src/docmd/core.py): the Converter that dispatches *)
(* on a file extension, the base64 image stripper, the replacement         *)
(* strategy engine and the formatting pipeline.                            *)
(*                                                                         *)
(* Python strings are TLA+ strings; a character is a string of length 1.   *)
(* A replacement strategy (a dict, which keeps insertion order) is a       *)
(* sequence of <<key, value>> pairs with distinct keys.                    *)
(***************************************************************************)
EXTENDS Integers, Sequences, FiniteSets, TLC

VARIABLES
    pc,             \* position of the call in progress
    entry,          \* the public operation that was called ("" before a call)
    strategy_arg,   \* Converter.__init__'s strategy argument
    strategy,       \* self.strategy, or the strategy argument of a direct call
    file_extension, \* file_to_md's file_extension argument
    md,             \* the local string the running routine works on
    calls,          \* the routines invoked by the call in progress, in order
    ret,            \* the value returned by the last completed call
    err,            \* the exception raised by the call in progress
    fmt_in,         \* what the external formatter text() was given
    fmt_out,        \* what the external formatter text() returned
    prev_ret,       \* the value returned by the call before the last one
    run,            \* how many times format_md was entered
    input,          \* the argument of a direct call of a pure function
    parts,          \* the pieces the caller built that argument from
    idx             \* apply_strategy_replace's position in strategy.items()

vars == <<pc, entry, strategy_arg, strategy, file_extension, md, calls, ret,
          err, fmt_in, fmt_out, prev_ret, run, input, parts, idx>>

----------------------------------------------------------------------------
(* Bounds of the model.                                                    *)

\* pieces concatenated to build an input of the strategy engine
MaxTokens == 5
\* pieces concatenated to build the text before a base64 construct
MaxBefore == 2
\* calls of format_md on one converter (the first, then re-runs on its output)
MaxRuns == 2

----------------------------------------------------------------------------
(* Python str primitives.                                                  *)

\* s[i] (1-based) as a string of length 1
CharAt(s, i) == SubSeq(s, i, i)

\* s[i:] (1-based, inclusive)
Suffix(s, i) == SubSeq(s, i, Len(s))

\* s.startswith(sub, i-1)
StartsAt(s, i, sub) == /\ i + Len(sub) - 1 <= Len(s)
                       /\ SubSeq(s, i, i + Len(sub) - 1) = sub

\* `sub in s`; the empty string is in every string
Contains(s, sub) == \E i \in 1..(Len(s) - Len(sub) + 1) : StartsAt(s, i, sub)

\* str.replace for a non-empty old: leftmost non-overlapping occurrences
RECURSIVE ReplaceFrom(_, _, _, _)
ReplaceFrom(s, i, old, new) ==
    IF i > Len(s) THEN ""
    ELSE IF StartsAt(s, i, old)
         THEN new \o ReplaceFrom(s, i + Len(old), old, new)
         ELSE CharAt(s, i) \o ReplaceFrom(s, i + 1, old, new)

\* str.replace for old = "": new is inserted before every character and at the end
RECURSIVE Interleave(_, _, _)
Interleave(s, i, new) ==
    IF i > Len(s) THEN new
    ELSE new \o CharAt(s, i) \o Interleave(s, i + 1, new)

\* string.replace(old, new)
str_replace(s, old, new) ==
    IF old = "" THEN Interleave(s, 1, new) ELSE ReplaceFrom(s, 1, old, new)

\* the characters str.strip() strips and the regex class \s matches (those
\* str.isspace() holds for): space, \t, \n, \r, \f, then, written as the
\* characters themselves, U+000B, U+001C to U+001F, U+0085, U+00A0 and
\* U+1680. The remaining sixteen (U+2000 to U+200A, U+2028, U+2029, U+202F,
\* U+205F, U+3000) cannot be written in a string of this module. The inputs
\* of the specifications below use the ASCII ones only.
Whitespace ==
    {" ", "\t", "\n", "\r", "\f", "", "", "", "", "", "", " ", " "}

IsSpace(c) == c \in Whitespace

\* str.lstrip()
RECURSIVE str_lstrip(_)
str_lstrip(s) ==
    IF s # "" /\ IsSpace(CharAt(s, 1)) THEN str_lstrip(Suffix(s, 2)) ELSE s

\* str.rstrip()
RECURSIVE str_rstrip(_)
str_rstrip(s) ==
    IF s # "" /\ IsSpace(CharAt(s, Len(s)))
    THEN str_rstrip(SubSeq(s, 1, Len(s) - 1)) ELSE s

\* str.strip()
str_strip(s) == str_lstrip(str_rstrip(s))

----------------------------------------------------------------------------
(* The replacement strategy engine.                                        *)

DEFAULT_STRATEGY_REPLACE ==
    << <<"\n\n\n", "\n\n">>, <<"xxxxxxx", "xxx">>, <<"- -", "-">> >>

\* the keys of a strategy, in mapping order
Keys(strat) == [i \in 1..Len(strat) |-> strat[i][1]]

\* rreplace without its loop: one pass of str.replace
rreplace_single_pass(string, substring, replace) ==
    str_replace(string, substring, replace)

\* while substring in string: string = string.replace(substring, replace)
RECURSIVE rreplace(_, _, _)
rreplace(string, substring, replace) ==
    IF Contains(string, substring)
    THEN rreplace(str_replace(string, substring, replace), substring, replace)
    ELSE string

\* for k, v in strategy.items(): string = rreplace(string, k, v), from pair i on
RECURSIVE ApplyFrom(_, _, _)
ApplyFrom(string, strat, i) ==
    IF i > Len(strat) THEN string
    ELSE ApplyFrom(rreplace(string, strat[i][1], strat[i][2]), strat, i + 1)

\* apply_strategy_replace returning from inside its for loop, after the first pair
apply_first_pair_only(string, strat) ==
    IF strat = <<>> THEN string ELSE rreplace(string, strat[1][1], strat[1][2])

\* for k, v in strategy.items(): string = rreplace(string, k, v); return string
apply_strategy_replace(string, strat) == ApplyFrom(string, strat, 1)

----------------------------------------------------------------------------
(* The base64 image stripper: the two regular expressions, matched the way *)
(* Python's backtracking matcher does (re.IGNORECASE | re.VERBOSE).        *)

\* the characters of a string, as a sequence
Chars(s) == [i \in 1..Len(s) |-> SubSeq(s, i, i)]

\* the case folding re.IGNORECASE applies to an ASCII letter
LowerOf ==
    [c \in {"A", "B", "C", "D", "E", "F", "G", "I", "J", "L", "M", "N", "P",
            "S", "T", "V", "W", "X"} |->
        CASE c = "A" -> "a" [] c = "B" -> "b" [] c = "C" -> "c" [] c = "D" -> "d"
          [] c = "E" -> "e" [] c = "F" -> "f" [] c = "G" -> "g" [] c = "I" -> "i"
          [] c = "J" -> "j" [] c = "L" -> "l" [] c = "M" -> "m" [] c = "N" -> "n"
          [] c = "P" -> "p" [] c = "S" -> "s" [] c = "T" -> "t" [] c = "V" -> "v"
          [] c = "W" -> "w" [] c = "X" -> "x"]

ToLower(c) == IF c \in DOMAIN LowerOf THEN LowerOf[c] ELSE c

\* a (lowercase) literal of the pattern matches the characters cs at i, ignoring case
MatchLit(cs, i, lit) ==
    /\ i + Len(lit) - 1 <= Len(cs)
    /\ \A j \in 1..Len(lit) : ToLower(cs[i + j - 1]) = lit[j]

\* (?:png|jpe?g|gif|webp|svg\+xml), in the order the matcher tries them
MIME_GROUP == <<"png", "jpeg", "jpg", "gif", "webp", "svg+xml">>

\* the literals data:image/{MIME_GROUP};base64, as characters
DataLits == [m \in 1..Len(MIME_GROUP) |->
                Chars("data:image/" \o MIME_GROUP[m] \o ";base64")]

\* data:image/{MIME_GROUP};base64 at i: the position after it, 0 on no match
DataPrefixEnd(cs, i) ==
    LET ok == {m \in 1..Len(MIME_GROUP) : MatchLit(cs, i, DataLits[m])}
    IN  IF ok = {} THEN 0
        ELSE i + Len(DataLits[CHOOSE m \in ok : \A n \in ok : m <= n])

\* \s* (greedy) from i: the first position that holds no whitespace
RECURSIVE SkipSpaces(_, _)
SkipSpaces(cs, i) ==
    IF i <= Len(cs) /\ IsSpace(cs[i]) THEN SkipSpaces(cs, i + 1) ELSE i

\* [^)\s]* (greedy) from i: the first position that holds ")" or whitespace
RECURSIVE SkipPayload(_, _)
SkipPayload(cs, i) ==
    IF i <= Len(cs) /\ cs[i] # ")" /\ ~IsSpace(cs[i])
    THEN SkipPayload(cs, i + 1) ELSE i

\* the first position >= i that holds character c, 0 when there is none
RECURSIVE Find(_, _, _)
Find(cs, i, c) ==
    IF i > Len(cs) THEN 0
    ELSE IF cs[i] = c THEN i ELSE Find(cs, i + 1, c)

\* a pattern without the optional title group
TitleEnd_no_title(cs, p) == 0

\* \s+(?:"[^"]*"|'[^']*'|\([^)]*\)) from p: the position after the title, 0 on no match
TitleEnd(cs, p) ==
    LET q == SkipSpaces(cs, p)
    IN  IF q = p \/ q > Len(cs) THEN 0
        ELSE IF cs[q] \notin {"\"", "'", "("} THEN 0
        ELSE LET r == Find(cs, q + 1, IF cs[q] = "(" THEN ")" ELSE cs[q])
             IN  IF r = 0 THEN 0 ELSE r + 1

\* (?:title)?\s*\) from p: the position of the closing ")", 0 on no match.
\* The title is tried first; when what follows it is not \s*\) the matcher
\* backtracks to the empty alternative.
TailEnd(cs, p) ==
    LET t == TitleEnd(cs, p)
        u1 == IF t = 0 THEN 0 ELSE SkipSpaces(cs, t)
        u0 == SkipSpaces(cs, p)
    IN  IF t # 0 /\ u1 <= Len(cs) /\ cs[u1] = ")" THEN u1
        ELSE IF u0 <= Len(cs) /\ cs[u0] = ")" THEN u0
        ELSE 0

\* RE_BASE64_PAREN matched at i: the position of the match's last character, 0 on no match
RE_BASE64_PAREN(cs, i) ==
    IF i <= Len(cs) /\ cs[i] = "("
    THEN LET b == DataPrefixEnd(cs, SkipSpaces(cs, i + 1))
         IN  IF b = 0 THEN 0 ELSE TailEnd(cs, SkipPayload(cs, b))
    ELSE 0

\* REGEX_BASE64_EMBED matched at i: the position of the match's last character, 0 on no match
REGEX_BASE64_EMBED(cs, i) ==
    IF i + 1 <= Len(cs) /\ cs[i] = "!" /\ cs[i + 1] = "["
    THEN LET j == Find(cs, i + 2, "]")
         IN  IF j = 0 THEN 0 ELSE RE_BASE64_PAREN(cs, j + 1)
    ELSE 0

\* REGEX_BASE64_EMBED.sub("", s): the matcher is at i, the text from `from` to
\* i - 1 matched nothing and is copied
RECURSIVE SubEmbed(_, _, _, _)
SubEmbed(s, cs, i, from) ==
    IF i > Len(cs) THEN SubSeq(s, from, Len(cs))
    ELSE LET e == REGEX_BASE64_EMBED(cs, i)
         IN  IF e # 0 THEN SubSeq(s, from, i - 1) \o SubEmbed(s, cs, e + 1, e + 1)
             ELSE SubEmbed(s, cs, i + 1, from)

\* RE_BASE64_PAREN.sub("()", s), likewise
RECURSIVE SubParen(_, _, _, _)
SubParen(s, cs, i, from) ==
    IF i > Len(cs) THEN SubSeq(s, from, Len(cs))
    ELSE LET e == RE_BASE64_PAREN(cs, i)
         IN  IF e # 0
             THEN SubSeq(s, from, i - 1) \o "()" \o SubParen(s, cs, e + 1, e + 1)
             ELSE SubParen(s, cs, i + 1, from)

\* md = REGEX_BASE64_EMBED.sub("", md); md = RE_BASE64_PAREN.sub("()", md)
clean_base64_images(text) ==
    LET md1 == SubEmbed(text, Chars(text), 1, 1)
    IN  SubParen(md1, Chars(md1), 1, 1)

----------------------------------------------------------------------------
(* The Converter.                                                          *)

\* no strategy argument (strategy=None)
NoStrategyArg == [given |-> FALSE, pairs |-> <<>>]

\* no exception
NoError == [type |-> "", message |-> ""]

\* no decomposition of the argument
NoParts == [before |-> "", embed |-> "", after |-> ""]

\* self.mapping: the dispatch table, extension -> routine
mapping == << <<".pdf", "pdf_to_md">>, <<".docx", "docx_to_md">> >>

\* a lookup that lowercases the extension first
mapping_get_ignorecase(ext) ==
    LET low == [i \in 1..Len(ext) |-> ToLower(SubSeq(ext, i, i))]
        hit == {i \in 1..Len(mapping) :
                   /\ Len(mapping[i][1]) = Len(ext)
                   /\ \A j \in 1..Len(ext) : SubSeq(mapping[i][1], j, j) = low[j]}
    IN  IF hit = {} THEN "None" ELSE mapping[CHOOSE i \in hit : TRUE][2]

\* self.mapping.get(file_extension): exact match of the key, None otherwise
mapping_get(ext) ==
    LET hit == {i \in 1..Len(mapping) : mapping[i][1] = ext}
    IN  IF hit = {} THEN "None" ELSE mapping[CHOOSE i \in hit : TRUE][2]

\* self.strategy = strategy or DEFAULT_STRATEGY_REPLACE (None and {} are falsy)
init_strategy(arg) ==
    IF arg.given /\ arg.pairs # <<>> THEN arg.pairs ELSE DEFAULT_STRATEGY_REPLACE

\* repr() of a list of str, as the f-string formats list(self.mapping.keys())
RECURSIVE ListItems(_, _)
ListItems(seq, i) ==
    IF i > Len(seq) THEN ""
    ELSE (IF i > 1 THEN ", " ELSE "") \o "'" \o seq[i] \o "'" \o ListItems(seq, i + 1)

ListRepr(seq) == "[" \o ListItems(seq, 1) \o "]"

\* the exception file_to_md raises on an extension that is not registered
UnsupportedFileExtensionError(ext) ==
    [type |-> "UnsupportedFileExtensionError",
     message |-> "Unsupported file extension: '" \o ext \o "'. Supported: "
                 \o ListRepr(Keys(mapping))]

\* md.lstrip() + "\n": whitespace left at the end
strip_newline_lstrip(s) == str_lstrip(s) \o "\n"

\* md + "\n": nothing stripped
newline_no_strip(s) == s \o "\n"

\* return md.strip() + "\n"
strip_newline(s) == str_strip(s) \o "\n"

----------------------------------------------------------------------------
(* Inputs.                                                                 *)

\* the strings made of at most n pieces of T
RECURSIVE Concats(_, _)
Concats(T, n) ==
    IF n = 0 THEN {""}
    ELSE LET r == Concats(T, n - 1) IN r \cup {a \o t : a \in r, t \in T}

\* file_extension arguments: the registered keys, case variants, no dot, empty
Extensions == {".pdf", ".docx", ".PDF", ".Docx", "pdf", "", ".txt"}

\* strategy arguments of Converter(...): none, the empty mapping, custom mappings
StrategyArgs ==
    { NoStrategyArg,
      [given |-> TRUE, pairs |-> <<>>],
      [given |-> TRUE,
       pairs |-> << <<"\n\n\n", "\n\n">>, <<"xxxxxxx", "ok">>, <<"- -", "-">> >>],
      [given |-> TRUE, pairs |-> << <<"  ", " ">> >>] }

\* what the external extraction engines (pymupdf4llm, markitdown) may return
RawMarkdown ==
    { "", " \n", "# Title\n\n\nParagraph", "xxxxxxx text",
      "before ![](data:image/png;base64,AAA) after",
      "link(data:image/gif;base64,CCC)" }

\* what the external formatter (mdformat.text) may return, besides its input
\* (the last one holds U+000B, U+001C, U+001D, U+001F and U+001E)
FormatterOutputs ==
    { "", " \n\t", "# Title\n\n\nParagraph\n", "a\n\n\n\n\nb\n", "xxxxxxx text\n",
      "- - item\n", "\n  x  y \n\n", "xxxxxxxxxxxxxxx\n",
      "xy\n" }

----------------------------------------------------------------------------
(* Spec: one Converter, one call of file_to_md or format_md on it, then    *)
(* re-runs of format_md on its own output.                                 *)

Init ==
    /\ pc = "idle"
    /\ entry = ""
    /\ strategy_arg \in StrategyArgs
    /\ strategy = init_strategy(strategy_arg)
    /\ file_extension = ""
    /\ md = ""
    /\ calls = <<>>
    /\ ret = ""
    /\ err = NoError
    /\ fmt_in = ""
    /\ fmt_out = ""
    /\ prev_ret = ""
    /\ run = 0
    /\ input = ""
    /\ parts = NoParts
    /\ idx = 0

\* file_to_md(stream, file_extension), up to the call of the routine found
file_to_md ==
    /\ pc = "idle"
    /\ \E ext \in Extensions :
          LET func == mapping_get(ext)
          IN  /\ file_extension' = ext
              /\ IF func = "None"
                 THEN /\ pc' = "raised"
                      /\ err' = UnsupportedFileExtensionError(ext)
                 ELSE /\ pc' = func
                      /\ err' = err
    /\ entry' = "file_to_md"
    /\ UNCHANGED <<strategy_arg, strategy, md, calls, ret, fmt_in, fmt_out,
                   prev_ret, run, input, parts, idx>>

\* pdf_to_md(stream): the external engine's output, returned as it is
pdf_to_md ==
    /\ pc = "pdf_to_md"
    /\ \E raw \in RawMarkdown : md' = raw
    /\ calls' = Append(calls, "pdf_to_md")
    /\ pc' = "text"
    /\ UNCHANGED <<entry, strategy_arg, strategy, file_extension, ret, err,
                   fmt_in, fmt_out, prev_ret, run, input, parts, idx>>

\* docx_to_md returning doc.markdown as it is, the stripper left out
docx_to_md_without_stripper ==
    /\ pc = "docx_to_md"
    /\ \E raw \in RawMarkdown : md' = raw
    /\ calls' = Append(calls, "docx_to_md")
    /\ pc' = "text"
    /\ UNCHANGED <<entry, strategy_arg, strategy, file_extension, ret, err,
                   fmt_in, fmt_out, prev_ret, run, input, parts, idx>>

\* docx_to_md(stream): the external converter's output through clean_base64_images
docx_to_md ==
    /\ pc = "docx_to_md"
    /\ \E raw \in RawMarkdown : md' = clean_base64_images(raw)
    /\ calls' = calls \o <<"docx_to_md", "clean_base64_images">>
    /\ pc' = "text"
    /\ UNCHANGED <<entry, strategy_arg, strategy, file_extension, ret, err,
                   fmt_in, fmt_out, prev_ret, run, input, parts, idx>>

\* the external extraction engine raises: the exception propagates
extraction_raises ==
    /\ pc \in {"pdf_to_md", "docx_to_md"}
    /\ calls' = Append(calls, pc)
    /\ err' = [type |-> "ExtractionFailure", message |-> pc]
    /\ pc' = "raised"
    /\ UNCHANGED <<entry, strategy_arg, strategy, file_extension, md, ret,
                   fmt_in, fmt_out, prev_ret, run, input, parts, idx>>

\* a caller calls format_md(md) directly
call_format_md ==
    /\ pc = "idle"
    /\ \E raw \in RawMarkdown : md' = raw
    /\ entry' = "format_md"
    /\ pc' = "text"
    /\ UNCHANGED <<strategy_arg, strategy, file_extension, calls, ret, err,
                   fmt_in, fmt_out, prev_ret, run, input, parts, idx>>

\* format_md: md = text(md), the external formatter
format_text ==
    /\ pc = "text"
    /\ \E out \in FormatterOutputs \cup {md} :
          /\ fmt_out' = out
          /\ md' = out
    /\ fmt_in' = md
    /\ run' = run + 1
    /\ calls' = Append(calls, "text")
    /\ pc' = "apply_strategy_replace"
    /\ UNCHANGED <<entry, strategy_arg, strategy, file_extension, ret, err,
                   prev_ret, input, parts, idx>>

\* format_md: md = apply_strategy_replace(md, self.strategy)
format_strategy ==
    /\ pc = "apply_strategy_replace"
    /\ md' = apply_strategy_replace(md, strategy)
    /\ calls' = Append(calls, "apply_strategy_replace")
    /\ pc' = "strip"
    /\ UNCHANGED <<entry, strategy_arg, strategy, file_extension, ret, err,
                   fmt_in, fmt_out, prev_ret, run, input, parts, idx>>

\* format_md: return md.strip() + "\n"
format_strip ==
    /\ pc = "strip"
    /\ ret' = strip_newline(md)
    /\ prev_ret' = ret
    /\ calls' = Append(calls, "strip")
    /\ pc' = "done"
    /\ UNCHANGED <<entry, strategy_arg, strategy, file_extension, md, err,
                   fmt_in, fmt_out, run, input, parts, idx>>

\* a caller runs format_md again, on the text the last call returned
rerun_format_md ==
    /\ pc = "done"
    /\ run < MaxRuns
    /\ md' = ret
    /\ entry' = "format_md"
    /\ calls' = <<>>
    /\ pc' = "text"
    /\ UNCHANGED <<strategy_arg, strategy, file_extension, ret, err, fmt_in,
                   fmt_out, prev_ret, run, input, parts, idx>>

Next ==
    \/ file_to_md
    \/ pdf_to_md
    \/ docx_to_md
    \/ extraction_raises
    \/ call_format_md
    \/ format_text
    \/ format_strategy
    \/ format_strip
    \/ rerun_format_md

Spec == Init /\ [][Next]_vars

----------------------------------------------------------------------------
(* StrategySpec: apply_strategy_replace called on a string, then again on  *)
(* what it returned.                                                       *)

\* the pieces the inputs of the strategy engine are made of
Tokens == {"\n", "xxx", "xxxx", "-", " ", "a"}

\* strategies on which every rreplace loop ends
Strategies ==
    { DEFAULT_STRATEGY_REPLACE,
      <<>>,
      << <<"a", "-">>, <<"- -", "a">> >>,
      << <<"xxx", "x">>, <<"- -", "xxx">> >>,
      << <<" ", "">> >> }

StrategyInit ==
    /\ pc = "call"
    /\ entry = "apply_strategy_replace"
    /\ strategy_arg = NoStrategyArg
    /\ strategy \in Strategies
    /\ file_extension = ""
    /\ md = ""
    /\ calls = <<>>
    /\ ret = ""
    /\ err = NoError
    /\ fmt_in = ""
    /\ fmt_out = ""
    /\ prev_ret = ""
    /\ run = 0
    /\ input \in Concats(Tokens, MaxTokens)
    /\ parts = NoParts
    /\ idx = 0

\* apply_strategy_replace(input, strategy)
apply_once ==
    /\ pc = "call"
    /\ ret' = apply_strategy_replace(input, strategy)
    /\ run' = 1
    /\ pc' = "returned"
    /\ UNCHANGED <<entry, strategy_arg, strategy, file_extension, md, calls, err,
                   fmt_in, fmt_out, prev_ret, input, parts, idx>>

\* apply_strategy_replace(ret, strategy), ret the last call's result
apply_again ==
    /\ pc = "returned"
    /\ entry = "apply_strategy_replace"
    /\ run < MaxRuns
    /\ prev_ret' = ret
    /\ ret' = apply_strategy_replace(ret, strategy)
    /\ run' = run + 1
    /\ UNCHANGED <<pc, entry, strategy_arg, strategy, file_extension, md, calls,
                   err, fmt_in, fmt_out, input, parts, idx>>

StrategyNext == apply_once \/ apply_again

StrategySpec == StrategyInit /\ [][StrategyNext]_vars

----------------------------------------------------------------------------
(* FairLoopSpec: apply_strategy_replace statement by statement, one action *)
(* per evaluation of the for, of the while test and of the while body.     *)
(* The interpreter runs a call that has a next statement: weak fairness.   *)

LoopInputs == Concats({"a", "\n"}, 4)

\* strategies, among them some with a zero-length key; none makes the string
\* longer, so every call reaches finitely many states
LoopStrategies ==
    { DEFAULT_STRATEGY_REPLACE,
      << <<"", "">> >>,
      << <<"\n\n", "\n">>, <<"", "">> >>,
      << <<"a", "b">>, <<"", "">> >>,
      << <<"", "">>, <<"a", "b">> >>,
      << <<"aa", "a">>, <<"\n", "">> >> }

LoopInit ==
    /\ pc = "for"
    /\ entry = "apply_strategy_replace"
    /\ strategy_arg = NoStrategyArg
    /\ strategy \in LoopStrategies
    /\ file_extension = ""
    /\ md \in LoopInputs
    /\ calls = <<>>
    /\ ret = ""
    /\ err = NoError
    /\ fmt_in = ""
    /\ fmt_out = ""
    /\ prev_ret = ""
    /\ run = 0
    /\ input = md
    /\ parts = NoParts
    /\ idx = 1

\* for k, v in strategy.items(): the next pair, or return string
loop_for ==
    /\ pc = "for"
    /\ IF idx > Len(strategy)
       THEN /\ pc' = "done"
            /\ ret' = md
       ELSE /\ pc' = "while"
            /\ ret' = ret
    /\ UNCHANGED <<entry, strategy_arg, strategy, file_extension, md, calls, err,
                   fmt_in, fmt_out, prev_ret, run, input, parts, idx>>

\* rreplace: while substring in string
loop_while ==
    /\ pc = "while"
    /\ IF Contains(md, strategy[idx][1])
       THEN /\ pc' = "body"
            /\ idx' = idx
       ELSE /\ pc' = "for"
            /\ idx' = idx + 1
    /\ UNCHANGED <<entry, strategy_arg, strategy, file_extension, md, calls, ret,
                   err, fmt_in, fmt_out, prev_ret, run, input, parts>>

\* rreplace: string = string.replace(substring, replace)
loop_body ==
    /\ pc = "body"
    /\ md' = str_replace(md, strategy[idx][1], strategy[idx][2])
    /\ pc' = "while"
    /\ UNCHANGED <<entry, strategy_arg, strategy, file_extension, calls, ret, err,
                   fmt_in, fmt_out, prev_ret, run, input, parts, idx>>

LoopNext == loop_for \/ loop_while \/ loop_body

FairLoopSpec == LoopInit /\ [][LoopNext]_vars /\ WF_vars(LoopNext)

----------------------------------------------------------------------------
(* CleanSpec: clean_base64_images called on before + construct + after,    *)
(* then again on what it returned.                                         *)

\* the pieces the text around a construct is made of
Pieces == {"![", "]", " ", "x", "(data:image/png;ba", "se64,A)",
           "(data:image/png;base64,A"}

\* Markdown images that embed base64 data, in the forms REGEX_BASE64_EMBED names
Embeds ==
    { "![](data:image/png;base64,AAA)",
      "![Alt](DATA:IMAGE/PNG;BASE64,AAAB 'title')",
      "![a[b](data:image/svg+xml;base64,YY \"t)\")",
      "![a](data:image/jpeg;base64,BB (t))",
      "![](data:image/webp;base64)" }

\* other constructs: a bare parenthesized base64 URL, an ordinary image, nothing
Others == {"(data:image/gif;base64,CCC)", "( data:image/jpg;base64,B)",
           "(data:image/png;base64,A'')",
           "![x](https://example.com/img.png)", ""}

CleanInit ==
    /\ pc = "call"
    /\ entry = "clean_base64_images"
    /\ strategy_arg = NoStrategyArg
    /\ strategy = <<>>
    /\ file_extension = ""
    /\ md = ""
    /\ calls = <<>>
    /\ ret = ""
    /\ err = NoError
    /\ fmt_in = ""
    /\ fmt_out = ""
    /\ prev_ret = ""
    /\ run = 0
    /\ parts \in [before : Concats(Pieces, MaxBefore),
                  embed : Embeds \cup Others,
                  after : Concats(Pieces, 1)]
    /\ input = parts.before \o parts.embed \o parts.after
    /\ idx = 0

\* clean_base64_images(input)
clean_once ==
    /\ pc = "call"
    /\ ret' = clean_base64_images(input)
    /\ run' = 1
    /\ pc' = "returned"
    /\ UNCHANGED <<entry, strategy_arg, strategy, file_extension, md, calls, err,
                   fmt_in, fmt_out, prev_ret, input, parts, idx>>

\* clean_base64_images(ret), ret the last call's result
clean_again ==
    /\ pc = "returned"
    /\ entry = "clean_base64_images"
    /\ run < MaxRuns
    /\ prev_ret' = ret
    /\ ret' = clean_base64_images(ret)
    /\ run' = run + 1
    /\ UNCHANGED <<pc, entry, strategy_arg, strategy, file_extension, md, calls,
                   err, fmt_in, fmt_out, input, parts, idx>>

CleanNext == clean_once \/ clean_again

CleanSpec == CleanInit /\ [][CleanNext]_vars

----------------------------------------------------------------------------
(* Properties of Spec.                                                     *)

\* the registered keys, as the claims name them
Registered == {".pdf", ".docx"}

\* C1: for every extension token that is not exactly '.pdf' or '.docx',
\* file_to_md fails with UnsupportedFileExtensionError carrying the token and
\* the list ['.pdf', '.docx'], and neither an extraction routine nor the
\* formatting pipeline is invoked.
C1_UnsupportedExtension ==
    (entry = "file_to_md" /\ file_extension \notin Registered) =>
        /\ pc = "raised"
        /\ err.type = "UnsupportedFileExtensionError"
        /\ err.message = "Unsupported file extension: '" \o file_extension
                         \o "'. Supported: ['.pdf', '.docx']"
        /\ calls = <<>>
        /\ run = 0

C1_Witness ==
    /\ entry = "file_to_md"
    /\ file_extension = ".PDF"
    /\ pc = "raised"
    /\ err.type = "UnsupportedFileExtensionError"

\* C4: a strategy mapping supplied to Converter(...), the empty mapping
\* included, is the one format_md applies: its pairs and no default pair.
C4_CustomStrategyOverrides ==
    (strategy_arg.given /\ pc = "strip") =>
        md = apply_strategy_replace(fmt_out, strategy_arg.pairs)

\* C6: what format_md returns ends with exactly one newline, and the text
\* before that newline has no leading and no trailing whitespace.
C6_FormattingTermination ==
    pc = "done" =>
        LET n == Len(ret)
            body == SubSeq(ret, 1, n - 1)
        IN  /\ n >= 1
            /\ CharAt(ret, n) = "\n"
            /\ body # "" => /\ ~IsSpace(CharAt(body, 1))
                            /\ ~IsSpace(CharAt(body, Len(body)))

C6_Witness ==
    /\ pc = "done"
    /\ fmt_out = " \n\t"
    /\ ret = "\n"

\* C7: with the default strategy and a formatter that leaves format_md's
\* output as it is, format_md run on its own output returns that output; and
\* the strip-and-newline step leaves no key of the strategy in what it returns.
C7_PipelineIdempotent ==
    (pc = "done" /\ strategy = DEFAULT_STRATEGY_REPLACE) =>
        /\ \A i \in 1..Len(strategy) : ~Contains(ret, strategy[i][1])
        /\ (run >= 2 /\ fmt_in = prev_ret /\ fmt_out = fmt_in) => ret = prev_ret

C7_Witness ==
    /\ pc = "done"
    /\ run = 2
    /\ strategy = DEFAULT_STRATEGY_REPLACE
    /\ fmt_out = fmt_in
    /\ prev_ret = "a\n\nb\n"
    /\ ret = prev_ret

\* the routines a successful file_to_md runs, in order
ExpectedCalls(ext) ==
    IF ext = ".pdf"
    THEN <<"pdf_to_md", "text", "apply_strategy_replace", "strip">>
    ELSE <<"docx_to_md", "clean_base64_images", "text", "apply_strategy_replace",
           "strip">>

\* what the routine registered for ext hands to the formatting pipeline
ExtractionOutputs(ext) ==
    IF ext = ".pdf" THEN RawMarkdown
    ELSE {clean_base64_images(raw) : raw \in RawMarkdown}

\* C8: for a registered extension file_to_md runs the routine registered for
\* it, once, then the external formatter, the replacement strategy and the
\* strip-and-newline step, in this order; the base64 stripper runs between
\* extraction and formatter on the .docx path and never on the .pdf path.
C8_ConversionOrder ==
    (entry = "file_to_md" /\ file_extension \in Registered /\ err = NoError) =>
        /\ calls = SubSeq(ExpectedCalls(file_extension), 1, Len(calls))
        /\ pc = "text" => md \in ExtractionOutputs(file_extension)
        /\ pc = "done" =>
              /\ calls = ExpectedCalls(file_extension)
              /\ fmt_in \in ExtractionOutputs(file_extension)
              /\ ret = strip_newline(apply_strategy_replace(fmt_out, strategy))

C8_Witness ==
    /\ entry = "file_to_md"
    /\ file_extension = ".docx"
    /\ pc = "done"
    /\ fmt_in = "before  after"
    /\ Len(calls) = 5

----------------------------------------------------------------------------
(* Properties of StrategySpec and FairLoopSpec.                            *)

\* C2: after apply_strategy_replace, no key of the strategy occurs as a
\* substring of the result, whatever the strategy.
C2_Fixpoint ==
    (entry = "apply_strategy_replace" /\ pc = "returned") =>
        \A i \in 1..Len(strategy) : ~Contains(ret, strategy[i][1])

\* C2 as amended: after apply_strategy_replace the key of the last pair does
\* not occur in the result, and with the default strategy no key occurs in it;
\* the key of an earlier pair may occur when a later pair's replacement
\* re-created it.
C2_FixpointAmended ==
    (entry = "apply_strategy_replace" /\ pc = "returned") =>
        /\ strategy # <<>> => ~Contains(ret, strategy[Len(strategy)][1])
        /\ strategy = DEFAULT_STRATEGY_REPLACE =>
              \A i \in 1..Len(strategy) : ~Contains(ret, strategy[i][1])

C2_Witness ==
    /\ entry = "apply_strategy_replace"
    /\ pc = "returned"
    /\ run = 1
    /\ strategy = << <<"a", "-">>, <<"- -", "a">> >>
    /\ Contains(input, "- -")
    /\ Contains(ret, "a")
    /\ ~Contains(ret, "- -")

\* C3: with the default strategy, apply_strategy_replace applied to its own
\* result returns that result.
C3_StrategyIdempotent ==
    (/\ entry = "apply_strategy_replace"
     /\ strategy = DEFAULT_STRATEGY_REPLACE
     /\ run >= 2) => ret = prev_ret

C3_Witness ==
    /\ entry = "apply_strategy_replace"
    /\ strategy = DEFAULT_STRATEGY_REPLACE
    /\ run = 2
    /\ Contains(input, "xxxxxxxxxxx")
    /\ ~Contains(prev_ret, "xxxx")
    /\ prev_ret # input
    /\ ret = prev_ret

\* C5: applying a strategy that holds a zero-length key does not loop for
\* ever: the call is rejected or ends.
C5_EmptyKeyTerminates ==
    (\E i \in 1..Len(strategy) : strategy[i][1] = "") =>
        <>(pc \in {"done", "raised"})

----------------------------------------------------------------------------
(* Properties of CleanSpec.                                                *)

\* s holds no base64 data URL: data:image/<mime>;base64 matches nowhere in it
NoDataUrl(s) ==
    LET cs == Chars(s) IN \A i \in 1..Len(cs) : DataPrefixEnd(cs, i) = 0

\* every "![" of s is followed, further on in s, by a "]"
BangsClosed(s) ==
    LET cs == Chars(s)
    IN  \A i \in 1..(Len(cs) - 1) :
            (cs[i] = "!" /\ cs[i + 1] = "[") => Find(cs, i + 2, "]") # 0

\* C9: for before + embed + after, embed a base64 image and before and after
\* without a base64 data URL, clean_base64_images returns before + after.
C9_EmbedRemoval ==
    (/\ entry = "clean_base64_images"
     /\ run = 1
     /\ parts.embed \in Embeds
     /\ NoDataUrl(parts.before)
     /\ NoDataUrl(parts.after)) => ret = parts.before \o parts.after

\* C9 as amended: the same, provided also that every "![" of before is
\* followed by a "]" within before and that before + after, put together,
\* holds no base64 data URL.
C9_EmbedRemovalAmended ==
    (/\ entry = "clean_base64_images"
     /\ run = 1
     /\ parts.embed \in Embeds
     /\ NoDataUrl(parts.before)
     /\ NoDataUrl(parts.after)
     /\ BangsClosed(parts.before)
     /\ NoDataUrl(parts.before \o parts.after)) => ret = parts.before \o parts.after

C9_Witness ==
    /\ entry = "clean_base64_images"
    /\ run = 1
    /\ parts.before = "![]"
    /\ parts.embed = "![Alt](DATA:IMAGE/PNG;BASE64,AAAB 'title')"
    /\ parts.after = "x"
    /\ ret = "![]x"

\* C10: what clean_base64_images returns holds no match of the parenthesized
\* base64 URL pattern; equivalently, cleaning it again changes nothing.
C10_OutputClean ==
    (entry = "clean_base64_images" /\ run >= 1) =>
        /\ LET cs == Chars(ret) IN \A i \in 1..Len(cs) : RE_BASE64_PAREN(cs, i) = 0
        /\ run >= 2 => ret = prev_ret

====
